---- MODULE Spec2Model ----
(***************************************************************************)
(* Model of DownstreamPoints_v03.py: for every site of a site collection,  *)
(* Main resolves the stream segment next to the site and                   *)
(* FindDownstreamPoint follows the stream network downstream until the     *)
(* Strahler order changes; Main writes one output row per site.            *)
(*                                                                         *)
(* The stream network is a table of segments.  A segment is identified by  *)
(* its OBJECTID (1..NumSeg); its attributes are the functions StrahlerOr,  *)
(* FROM_NODE, TO_NODE and Shape_Length, and its geometry is the pair       *)
(* FirstPoint/LastPoint.  A layer selection is a set of OBJECTIDs.  Python *)
(* strings are sequences of one-character strings; Python's False, as the  *)
(* value of xy, is the empty tuple PyFalse.                                *)
(***************************************************************************)
EXTENDS Integers, Sequences, FiniteSets, TLC

\* ------------------------------------------------------------------ bounds
NumSeg == 4
MaxSites == 2
\* The loop of FindDownstreamPoint has no bound of its own; the model stops
\* following a trace that has visited more than MaxHops segments.
MaxHops == 6

Seg == 1..NumSeg
\* Strahler orders only enter the program through =, > and < against the
\* initial order, so three values give every comparison pattern.
Orders == {1, 2, 3}

PyFalse == <<>>

\* ------------------------------------------------------------------ inputs
AllFields == {"OBJECTID", "StrahlerOr", "FROM_NODE", "TO_NODE", "Shape_Length"}
\* Schemas of the stream feature class: complete, or one field short.
FieldSets == {AllFields} \cup {AllFields \ {f} : f \in AllFields}

\* Topologies: the chain 1 -> 2 -> ... -> NumSeg, where segment i runs from
\* node i to node i+1; optionally segment j+1 leaves node j as segment j does
\* (a fork: node j has two outgoing segments, node j+1 has none), or segment
\* j flows back into node 1 (a cycle).
ChainFrom == [i \in Seg |-> i]
ChainTo == [i \in Seg |-> i + 1]
ForkFrom(j) == [i \in Seg |-> IF i = j + 1 THEN j ELSE i]
LoopTo(j) == [i \in Seg |-> IF i = j THEN 1 ELSE i + 1]
Topologies ==
    {<<ChainFrom, ChainTo>>}
    \cup {<<ForkFrom(j), ChainTo>> : j \in 1..(NumSeg - 1)}
    \cup {<<ChainFrom, LoopTo(j)>> : j \in Seg}

LengthOf(i) == CASE i = 1 -> 10 [] i = 2 -> 20 [] i = 3 -> 30 [] OTHER -> 5
LengthTables == {[i \in Seg |-> LengthOf(i)]}

\* Geometry: every segment has its own start and end point.
FirstPoint(i) == <<10 * i, i>>
LastPoint(i) == <<10 * i + 5, i>>

\* Segments within the tolerance of a site: none, one, or two.
NearSets == {{}, {1}, {2}, {1, 2}}
Labels == {<<" ", "b", " ">>, <<"a", "_">>}

VARIABLES
    StrahlerOr, FROM_NODE, TO_NODE, Shape_Length,  \* the stream network
    fields,               \* field names of the stream feature class
    pc,                   \* position of Main
    created,              \* number of times the output collection was created
    output,               \* rows of the output collection
    site_list,            \* number of sites Main iterates over
    s,                    \* index of the site in progress (0 before the loop)
    siteNear,             \* segments within tolerance of the site in progress
    siteLabel,            \* "Sites" field of the site in progress
    point_name,
    selection,            \* selected OBJECTIDs of stream_lyr
    start_segment,        \* rows of the layer named "start"
    start, StrOr_initial, StrOr_current,
    downstream_segments, downstream_length,
    xy,                   \* value returned by FindDownstreamPoint
    err                   \* how the trace in progress failed ("" if it has not)

network == <<StrahlerOr, FROM_NODE, TO_NODE, Shape_Length>>
trace == <<start, StrOr_initial, StrOr_current, downstream_segments,
           downstream_length>>
site == <<s, siteNear, siteLabel, point_name>>
vars == <<network, fields, pc, created, output, site_list, site, selection,
          start_segment, trace, xy, err>>

\* ------------------------------------------------------- pure functions
req_fields == {"OBJECTID", "StrahlerOr", "FROM_NODE", "TO_NODE"}

\* Variant of ValidateInputStreams: any required field instead of all.
ValidateAnyField(fs) == req_fields \cap fs # {}

\* ValidateInputStreams: TRUE iff every required field is a field of streams.
ValidateInputStreams(fs) == req_fields \subseteq fs

\* Variant of Replace: replace(" ", "_", 1), the first space only.
ReplaceFirst(str) ==
    [i \in DOMAIN str |->
        IF str[i] = " " /\ \A j \in 1..(i - 1) : str[j] # " "
        THEN "_" ELSE str[i]]

\* str.replace(" ", "_")
Replace(str) == [i \in DOMAIN str |-> IF str[i] = " " THEN "_" ELSE str[i]]

\* The attribute table row of segment i, as a dictionary keyed by field name.
Row(i) ==
    [f \in fields |->
        CASE f = "OBJECTID" -> i
          [] f = "StrahlerOr" -> StrahlerOr[i]
          [] f = "FROM_NODE" -> FROM_NODE[i]
          [] f = "TO_NODE" -> TO_NODE[i]
          [] OTHER -> Shape_Length[i]]

EmptyDict == [f \in {} |-> 0]

\* DictionaryOfLayerFeatures: every row of the layer overwrites the
\* dictionary, so the result is the row the cursor yields last (the cursor
\* order is not fixed by the code), and the empty dictionary when the layer
\* has no row.
DictionaryOfLayerFeatures(layer) ==
    IF layer = {} THEN {EmptyDict} ELSE {Row(i) : i \in layer}

\* Variant of SelectFromNode: the query names TO_NODE instead of FROM_NODE.
SelectToNode(n) == {i \in Seg : TO_NODE[i] = n}

\* SelectLayerByAttribute(stream_lyr, "NEW_SELECTION", "FROM_NODE = n")
SelectFromNode(n) == {i \in Seg : FROM_NODE[i] = n}

\* SelectLayerByAttribute(stream_lyr, "NEW_SELECTION", "OBJECTID = id")
SelectObjectId(id) == {i \in Seg : i = id}

Last(q) == q[Len(q)]

\* Variant of SelectByLocation: SUBSET_SELECTION instead of NEW_SELECTION.
SelectByLocationSubset(selected, near) == selected \cap near

\* lines 89-91: SelectLayerByLocation(stream_lyr, "INTERSECT", site_lyr,
\* tolerance, "NEW_SELECTION") replaces the selection `selected` by the
\* segments within the tolerance of the site.
SelectByLocation(selected, near) == near

\* Variant of BoundarySelection: index 0 instead of -1.
BoundarySelectionFirst(segments, selected) == SelectObjectId(segments[1])

\* Variant of BoundarySelection: v02 of the script, which did not backtrack
\* and read the coordinates from the selected higher-order segment.
BoundarySelectionV02(segments, selected) == selected

\* lines 138-140: on an order increase the last segment of
\* downstream_segments replaces the selection `selected`.
BoundarySelection(segments, selected) == SelectObjectId(Last(segments))

\* Variant of SameOrder: the test of the elif branch in the if branch.
SameOrderSwapped(current, initial) == current > initial

\* line 127: if StrOr_current == StrOr_initial
SameOrder(current, initial) == current = initial

\* Variant of AppendSegment: insert(0, id) instead of append(id).
PrependSegment(segments, id) == <<id>> \o segments

\* line 128: downstream_segments.append(downstream['OBJECTID'])
AppendSegment(segments, id) == Append(segments, id)

\* Variant of UpdateStart: the update of start is missing.
UpdateStartMissing(old, downstream) == old

\* line 130: start = downstream
UpdateStart(old, downstream) == downstream

\* Variant of AddLength: assignment instead of +=.
AddLengthAssign(total, downstream) == downstream["Shape_Length"]

\* line 129: downstream_length += downstream['Shape_Length']
AddLength(total, downstream) == total + downstream["Shape_Length"]

\* ------------------------------------------------------------------ Init
NoTrace ==
    /\ start = EmptyDict
    /\ StrOr_initial = 0
    /\ StrOr_current = 0
    /\ downstream_segments = <<>>
    /\ downstream_length = 0

\* The frame of FindDownstreamPoint is gone.
DiscardTrace ==
    /\ start' = EmptyDict
    /\ StrOr_initial' = 0
    /\ StrOr_current' = 0
    /\ downstream_segments' = <<>>
    /\ downstream_length' = 0

Init ==
    /\ StrahlerOr \in [Seg -> Orders]
    /\ \E t \in Topologies : FROM_NODE = t[1] /\ TO_NODE = t[2]
    /\ Shape_Length \in LengthTables
    /\ fields = {}
    /\ pc = "validate"
    /\ created = 0
    /\ output = <<>>
    /\ site_list \in 0..MaxSites
    /\ s = 0
    /\ siteNear = {}
    /\ siteLabel = <<>>
    /\ point_name = <<>>
    /\ selection = Seg
    /\ start_segment = {}
    /\ NoTrace
    /\ xy = PyFalse
    /\ err = ""

\* ------------------------------------------------------------------ Main
\* lines 194-201: ValidateInputStreams lists the fields of streams; Main
\* makes the stream layer (nothing selected: all rows) or returns False.
Validate ==
    /\ pc = "validate"
    /\ \E fs \in FieldSets :
        /\ fields' = fs
        /\ pc' = IF ValidateInputStreams(fs) THEN "create" ELSE "aborted"
    /\ UNCHANGED <<network, created, output, site_list, site, selection,
                   start_segment, trace, xy, err>>

\* lines 204-216: the output feature class is created, empty.
CreateOutput ==
    /\ pc = "create"
    /\ created' = created + 1
    /\ output' = <<>>
    /\ pc' = "loop"
    /\ UNCHANGED <<network, fields, site_list, site, selection,
                   start_segment, trace, xy, err>>

\* lines 218-237: the next site of site_list is selected and its label read.
SelectSite ==
    /\ pc = "loop"
    /\ s < site_list
    /\ s' = s + 1
    /\ \E near \in NearSets, label \in Labels :
        /\ siteNear' = near
        /\ siteLabel' = label
        /\ point_name' = Replace(label)
    /\ pc' = "resolve"
    /\ UNCHANGED <<network, fields, created, output, site_list, selection,
                   start_segment, trace, xy, err>>

\* lines 251-252: site_list is exhausted.
Done ==
    /\ pc = "loop"
    /\ s = site_list
    /\ pc' = "done"
    /\ UNCHANGED <<network, fields, created, output, site_list, site,
                   selection, start_segment, trace, xy, err>>

\* ------------------------------------------------- FindDownstreamPoint
\* Variant of ReadOnly: the function empties the output collection.
ReadOnlyButOutput ==
    /\ output' = <<>>
    /\ UNCHANGED <<network, fields, created, site_list, site>>

\* lines 77-161: FindDownstreamPoint writes to neither the stream network,
\* the site collection nor the output collection.
ReadOnly == UNCHANGED <<network, fields, created, output, site_list, site>>

\* lines 89-114, one stream selected: the layer "start" is made of it and
\* the trace state is initialised.
ResolveUnique ==
    /\ pc = "resolve"
    /\ selection' = SelectByLocation(selection, siteNear)
    /\ Cardinality(selection') = 1
    /\ start_segment' = selection'
    /\ \E d \in DictionaryOfLayerFeatures(start_segment') :
        /\ start' = d
        /\ StrOr_initial' = d["StrahlerOr"]
        /\ StrOr_current' = d["StrahlerOr"]
        /\ downstream_segments' = <<d["OBJECTID"]>>
    /\ downstream_length' = 0
    /\ pc' = "swim"
    /\ ReadOnly
    /\ UNCHANGED <<xy, err>>

\* lines 89-103, no stream or several streams selected: return False.
ResolveFail ==
    /\ pc = "resolve"
    /\ selection' = SelectByLocation(selection, siteNear)
    /\ Cardinality(selection') # 1
    /\ xy' = PyFalse
    /\ err' = "NoUniqueStream"
    /\ pc' = "insert"
    /\ ReadOnly
    /\ UNCHANGED <<start_segment, trace>>

\* lines 117-131: the successor has the initial order.
SwimContinue ==
    /\ pc = "swim"
    /\ StrOr_current = StrOr_initial
    /\ Len(downstream_segments) <= MaxHops
    /\ selection' = SelectFromNode(start["TO_NODE"])
    /\ \E downstream \in DictionaryOfLayerFeatures(selection') :
        /\ "StrahlerOr" \in DOMAIN downstream
        /\ SameOrder(downstream["StrahlerOr"], StrOr_initial)
        /\ "Shape_Length" \in DOMAIN downstream
        /\ StrOr_current' = downstream["StrahlerOr"]
        /\ downstream_segments' =
               AppendSegment(downstream_segments, downstream["OBJECTID"])
        /\ downstream_length' = AddLength(downstream_length, downstream)
        /\ start' = UpdateStart(start, downstream)
    /\ ReadOnly
    /\ UNCHANGED <<pc, start_segment, StrOr_initial, xy, err>>

\* lines 117-147: the successor has a higher order; the last segment of
\* downstream_segments is selected again and the loop ends.
SwimBoundary ==
    /\ pc = "swim"
    /\ StrOr_current = StrOr_initial
    /\ \E downstream \in
             DictionaryOfLayerFeatures(SelectFromNode(start["TO_NODE"])) :
        /\ "StrahlerOr" \in DOMAIN downstream
        /\ ~SameOrder(downstream["StrahlerOr"], StrOr_initial)
        /\ downstream["StrahlerOr"] > StrOr_initial
        /\ StrOr_current' = downstream["StrahlerOr"]
    /\ selection' = BoundarySelection(downstream_segments,
                                      SelectFromNode(start["TO_NODE"]))
    /\ ReadOnly
    /\ UNCHANGED <<pc, start_segment, start, StrOr_initial,
                   downstream_segments, downstream_length, xy, err>>

\* lines 117-151: the successor has a lower order: return False.
SwimInversion ==
    /\ pc = "swim"
    /\ StrOr_current = StrOr_initial
    /\ selection' = SelectFromNode(start["TO_NODE"])
    /\ \E downstream \in DictionaryOfLayerFeatures(selection') :
        /\ "StrahlerOr" \in DOMAIN downstream
        /\ ~SameOrder(downstream["StrahlerOr"], StrOr_initial)
        /\ ~(downstream["StrahlerOr"] > StrOr_initial)
        /\ StrOr_current' = downstream["StrahlerOr"]
    /\ xy' = PyFalse
    /\ err' = "OrderInversion"
    /\ pc' = "insert"
    /\ ReadOnly
    /\ UNCHANGED <<start_segment, start, StrOr_initial, downstream_segments,
                   downstream_length>>

\* lines 124-129: a key the loop reads is not in the dictionary (no row was
\* selected, or the schema has no Shape_Length): the KeyError is caught
\* nowhere and ends Main.
SwimKeyError ==
    /\ pc = "swim"
    /\ StrOr_current = StrOr_initial
    /\ selection' = SelectFromNode(start["TO_NODE"])
    /\ \E downstream \in DictionaryOfLayerFeatures(selection') :
        \/ /\ "StrahlerOr" \notin DOMAIN downstream
           /\ UNCHANGED <<StrOr_current, downstream_segments>>
        \/ /\ "StrahlerOr" \in DOMAIN downstream
           /\ SameOrder(downstream["StrahlerOr"], StrOr_initial)
           /\ "Shape_Length" \notin DOMAIN downstream
           /\ StrOr_current' = downstream["StrahlerOr"]
           /\ downstream_segments' =
                  AppendSegment(downstream_segments, downstream["OBJECTID"])
    /\ err' = "KeyError"
    /\ pc' = "crashed"
    /\ ReadOnly
    /\ UNCHANGED <<start_segment, start, StrOr_initial, downstream_length, xy>>

\* lines 153-161: the loop has ended; the start point of the selected row
\* (of the last one, were there several) is returned.
GetCoordinates ==
    /\ pc = "swim"
    /\ StrOr_current # StrOr_initial
    /\ \E row \in selection : xy' = FirstPoint(row)
    /\ pc' = "insert"
    /\ ReadOnly
    /\ UNCHANGED <<selection, start_segment, trace, err>>

\* ------------------------------------------------------- Main, continued
\* lines 242-249: Main does not test xy.  insertRow([xy, point_name])
\* appends a row; the row's fields site, label and err record, for the
\* properties below, the site that wrote it, that site's label and how that
\* site's trace had failed.
InsertRow ==
    /\ pc = "insert"
    /\ output' = Append(output, [xy |-> xy, Site |-> point_name,
                                 site |-> s, label |-> siteLabel,
                                 err |-> err])
    /\ err' = ""
    /\ DiscardTrace
    /\ pc' = "loop"
    /\ UNCHANGED <<network, fields, created, site_list, site, selection,
                   start_segment, xy>>

\* line 244 with xy = False: the insert cursor may instead reject a value
\* that is no coordinate pair; the exception is caught nowhere and ends Main.
InsertRaises ==
    /\ pc = "insert"
    /\ xy = PyFalse
    /\ err' = "InsertError"
    /\ pc' = "crashed"
    /\ UNCHANGED <<network, fields, created, output, site_list, site,
                   selection, start_segment, trace, xy>>

Next ==
    \/ Validate
    \/ CreateOutput
    \/ SelectSite
    \/ Done
    \/ ResolveUnique
    \/ ResolveFail
    \/ SwimContinue
    \/ SwimBoundary
    \/ SwimInversion
    \/ SwimKeyError
    \/ GetCoordinates
    \/ InsertRow
    \/ InsertRaises

Spec == Init /\ [][Next]_vars

\* The script is one sequential program: whenever it has a next step, it
\* takes it.
FairSpec == Spec /\ WF_vars(Next)

TypeOK ==
    /\ pc \in {"validate", "create", "aborted", "loop", "resolve", "swim",
               "insert", "crashed", "done"}
    /\ created \in 0..1
    /\ s \in 0..site_list
    /\ Len(output) <= s

\* ------------------------------------------------- reference definitions
\* The network as the claims describe it, independent of the trace state.
Successors(i) == {t \in Seg : FROM_NODE[t] = TO_NODE[i]}

TheOne(S) == CHOOSE x \in S : TRUE

\* The chain s0, s1, ..., sk of the claims: from q, follow the successor as
\* long as it is unique and has the order of the first segment.
RECURSIVE SameOrderChain(_, _)
SameOrderChain(q, fuel) ==
    IF fuel = 0 \/ Cardinality(Successors(Last(q))) # 1
    THEN q
    ELSE IF StrahlerOr[TheOne(Successors(Last(q)))] = StrahlerOr[q[1]]
         THEN SameOrderChain(Append(q, TheOne(Successors(Last(q)))), fuel - 1)
         ELSE q

ChainOf(s0) == SameOrderChain(<<s0>>, MaxHops + 1)

\* The chain q is followed by a unique successor of strictly higher order.
EndsAtBoundary(q) ==
    /\ Cardinality(Successors(Last(q))) = 1
    /\ StrahlerOr[TheOne(Successors(Last(q)))] > StrahlerOr[q[1]]

BoundaryOf(q) == TheOne(Successors(Last(q)))

RECURSIVE SumLength(_)
SumLength(q) == IF q = <<>> THEN 0 ELSE Shape_Length[Head(q)] + SumLength(Tail(q))

\* The site in progress lies on exactly one segment.
UniquelyResolved == Cardinality(siteNear) = 1

\* FindDownstreamPoint has left its loop on an order increase (TERMINATED).
Terminated == pc = "swim" /\ StrOr_current > StrOr_initial

\* FindDownstreamPoint has returned to Main, which has not yet written.
Returned == pc = "insert"

ExampleChain ==
    /\ \A i \in 1..3 : StrahlerOr[i] = 2 /\ TO_NODE[i] = i + 1
    /\ StrahlerOr[4] = 3
    /\ FROM_NODE = ChainFrom
    /\ <<Shape_Length[1], Shape_Length[2], Shape_Length[3], Shape_Length[4]>>
           = <<10, 20, 30, 5>>
    /\ siteNear = {1}

HigherOrderNeighbor(s0) ==
    /\ Successors(s0) # {}
    /\ \A b \in Successors(s0) : StrahlerOr[b] > StrahlerOr[s0]

C4_NoRowOnInversion ==
    /\ (Returned /\ err = "OrderInversion") => xy = PyFalse
    /\ \A k \in DOMAIN output : output[k].err # "OrderInversion"

\* C5: with exactly one segment within tolerance the trace starts on that
\* segment; with none or several the resolution fails, and Main skips the
\* site: it writes no row and goes on to the next site.
C5_ResolutionOrSkip ==
    [][ /\ pc = "resolve" =>
            IF Cardinality(siteNear) = 1
            THEN pc' = "swim" /\ downstream_segments' = <<TheOne(siteNear)>>
            ELSE pc' = "insert" /\ xy' = PyFalse
        /\ (Returned /\ Cardinality(siteNear) # 1) =>
            output' = output /\ pc' = "loop" ]_vars

\* C6: a per-site failure does not stop the driver loop and leaves the rows
\* already written alone; Main stops before having processed every site
\* only on a failed schema validation.
C6_FailureIsolation ==
    [][ /\ Len(output') >= Len(output)
        /\ SubSeq(output', 1, Len(output)) = output
        /\ (pc' \in {"aborted", "crashed"}) =>
               (pc' = "aborted" /\ pc = "validate") ]_vars

\* C7: if the stream collection lacks one of OBJECTID, StrahlerOr, FROM_NODE,
\* TO_NODE, Main aborts with no output collection created and no site
\* resolved or traced; otherwise the output collection is created exactly
\* once, before the first site is processed.
RequiredFields == {"OBJECTID", "StrahlerOr", "FROM_NODE", "TO_NODE"}

NothingProcessed ==
    /\ s = 0
    /\ output = <<>>
    /\ selection = Seg
    /\ start_segment = {}
    /\ NoTrace
    /\ xy = PyFalse

C7_SchemaFirst ==
    /\ created <= 1
    /\ created = 0 => NothingProcessed
    /\ pc # "validate" =>
        IF RequiredFields \subseteq fields
        THEN /\ pc # "aborted"
             /\ pc # "create" => created = 1
        ELSE pc = "aborted" /\ created = 0

C7_Witness ==
    /\ pc = "aborted"
    /\ ~(RequiredFields \subseteq fields)
    /\ created = 0
    /\ site_list > 0

\* C8: the output collection holds at most one row per site, in input
\* order; every row pairs its site's label with the coordinate that site's
\* trace returned; no row exists for a site whose resolution or trace failed.
C8_OneRowPerTracedSite ==
    /\ \A i, j \in DOMAIN output : i < j => output[i].site < output[j].site
    /\ \A k \in DOMAIN output :
        /\ output[k].Site = Replace(output[k].label)
        /\ output[k].err = ""
        /\ output[k].xy # PyFalse

\* C9: when no segment leaves the to-node of the current segment, the trace
\* fails for the site alone: FindDownstreamPoint returns without a
\* coordinate and Main goes on.
AtLoopHead == pc = "swim" /\ StrOr_current = StrOr_initial

C9_MissingSuccessor ==
    [][ (AtLoopHead /\ Successors(Last(downstream_segments)) = {}) =>
            (pc' = "insert" /\ xy' = PyFalse) ]_vars

\* C10: when several segments leave the to-node of the current segment, the
\* trace surfaces a failure for the site instead of going on with one of
\* them.
C10_AmbiguousSuccessor ==
    [][ (AtLoopHead /\ Cardinality(Successors(Last(downstream_segments))) > 1)
            => (pc' # "swim" /\ err' # "") ]_vars

\* C12: in every output row the Site value is the label of the row's site
\* with each space replaced by an underscore and nothing else changed; no
\* Site value holds a space.
C12_LabelSanitized ==
    \A k \in DOMAIN output :
        /\ Len(output[k].Site) = Len(output[k].label)
        /\ \A i \in DOMAIN output[k].label :
               output[k].Site[i] =
                   IF output[k].label[i] = " " THEN "_" ELSE output[k].label[i]
        /\ \A i \in DOMAIN output[k].Site : output[k].Site[i] # " "

C12_Witness ==
    \E k \in DOMAIN output :
        /\ output[k].label = <<" ", "b", " ">>
        /\ output[k].Site = <<"_", "b", "_">>
        /\ output[k].xy # PyFalse

\* C13: on a network without a directed cycle along which the order never
\* decreases, a trace visits no segment twice, so it holds at most NumSeg
\* segments, and it leaves the loop: FindDownstreamPoint returns (a
\* coordinate or False) or ends in an exception.
RECURSIVE Downstream(_, _)
Downstream(S, n) ==
    IF n = 0 THEN S
    ELSE Downstream(
             S \cup {t \in Seg : \E i \in S : /\ t \in Successors(i)
                                             /\ StrahlerOr[t] >= StrahlerOr[i]},
             n - 1)

Acyclic ==
    \A i \in Seg :
        \A t \in Successors(i) :
            StrahlerOr[t] >= StrahlerOr[i] => i \notin Downstream({t}, NumSeg)

NoRepeat(q) == \A i, j \in DOMAIN q : i # j => q[i] # q[j]

C13_TerminatesIfAcyclic ==
    /\ [](Acyclic /\ pc = "swim" =>
            /\ NoRepeat(downstream_segments)
            /\ Len(downstream_segments) <= NumSeg)
    /\ (Acyclic /\ pc = "swim") ~> (pc \in {"insert", "crashed"})

C13_Witness ==
    /\ Acyclic
    /\ Terminated
    /\ Len(downstream_segments) = 3

\* C14: the loop has no step bound.  On a stream collection with the length
\* field, a trace whose chain of unique same-order successors enters a
\* cycle never leaves the loop: it neither terminates nor fails, no later
\* site is reached, and another segment can always be appended (in the model,
\* until MaxHops), so segments are visited again and again.
NextSameOrder(i) ==
    IF /\ Cardinality(Successors(i)) = 1
       /\ StrahlerOr[TheOne(Successors(i))] = StrahlerOr[i]
    THEN TheOne(Successors(i))
    ELSE 0

RECURSIVE Follow(_, _)
Follow(i, n) == IF n = 0 \/ i = 0 THEN i ELSE Follow(NextSameOrder(i), n - 1)

\* Among NumSeg segments, NumSeg hops along unique same-order successors
\* come back to a segment already passed: the chain from i enters a cycle,
\* all of whose segments have the order of i.
EntersCycle(i) == Follow(i, NumSeg) # 0

TraceIntoCycle ==
    /\ s >= 1
    /\ pc # "resolve"
    /\ UniquelyResolved
    /\ EntersCycle(TheOne(siteNear))
    /\ "Shape_Length" \in fields

C14_NoStepBound ==
    TraceIntoCycle =>
        /\ AtLoopHead
        /\ Len(downstream_segments) <= MaxHops => ENABLED SwimContinue

C14_Witness ==
    /\ TraceIntoCycle
    /\ AtLoopHead
    /\ Len(downstream_segments) > NumSeg
    /\ ~NoRepeat(downstream_segments)

\* C15: within a trace StrOr_initial keeps the order of the starting
\* segment; downstream_segments before a step is a prefix of
\* downstream_segments after it; and downstream_length never decreases and
\* changes only in a step that appends a successor of the initial order, by
\* exactly that successor's Shape_Length.
IsPrefix(p, q) == Len(p) <= Len(q) /\ SubSeq(q, 1, Len(p)) = p

TraceStep ==
    pc = "swim" =>
        /\ StrOr_initial = StrahlerOr[Head(downstream_segments)]
        /\ StrOr_initial' = StrOr_initial
        /\ IsPrefix(downstream_segments, downstream_segments')
        /\ downstream_length' >= downstream_length
        /\ downstream_length' # downstream_length =>
              /\ Len(downstream_segments') = Len(downstream_segments) + 1
              /\ Last(downstream_segments') \in
                     Successors(Last(downstream_segments))
              /\ StrahlerOr[Last(downstream_segments')] = StrOr_initial
              /\ downstream_length' =
                     downstream_length
                         + Shape_Length[Last(downstream_segments')]

C15_TraceStateDiscipline == [][TraceStep]_vars

C15_Witness ==
    /\ pc = "swim"
    /\ Len(downstream_segments) >= 3
    /\ downstream_length > 0

\* C16: once ValidateInputStreams has accepted the streams, no trace fails
\* for a field missing from the schema: a KeyError can only come from an
\* empty selection.
C16_SchemaCoversReads ==
    (pc = "crashed" /\ err = "KeyError") => selection = {}

\* C17, as stated: FindDownstreamPoint changes nothing outside its trace
\* state but the selection on the stream layer.
InFindDownstreamPoint == pc \in {"resolve", "swim"}

C17_OnlySelectionChanges ==
    [][InFindDownstreamPoint =>
           UNCHANGED <<network, fields, created, output, site_list, site,
                       start_segment>>]_vars

\* C17: FindDownstreamPoint leaves the stream records, the site collection
\* and the output collection unchanged; outside its trace state it changes
\* only the selection on the stream layer and the layer "start"; and rows
\* are added to the output only by Main's insert step, one at a time.
FrameStep ==
    /\ InFindDownstreamPoint =>
           UNCHANGED <<network, fields, created, output, site_list, site>>
    /\ output' # output =>
           /\ pc = "insert"
           /\ Len(output') = Len(output) + 1
           /\ IsPrefix(output, output')

C17_ReadOnly == [][FrameStep]_vars

C17_Witness ==
    /\ pc = "insert"
    /\ s = 2
    /\ Len(output) = 1
    /\ start_segment # {}
    /\ selection # start_segment

\* C18: the outcome of a site depends on the network and on the segments
\* near that site only.  SiteOutcomes computes, from these alone, the
\* outcomes FindDownstreamPoint can have (several where a node has several
\* successors and the cursor order decides); neither the selection nor the
\* layer "start" left by an earlier site enters it.
RECURSIVE OutcomesFrom(_, _, _)
OutcomesFrom(cur, order, hops) ==
    IF Successors(cur) = {}
    THEN {<<"raise", "KeyError">>}
    ELSE UNION {
        IF StrahlerOr[t] = order
        THEN IF "Shape_Length" \notin fields
             THEN {<<"raise", "KeyError">>}
             ELSE IF hops = 0 THEN {} ELSE OutcomesFrom(t, order, hops - 1)
        ELSE IF StrahlerOr[t] > order
             THEN {<<"return", FirstPoint(cur)>>}
             ELSE {<<"return False", "OrderInversion">>}
        : t \in Successors(cur)}

SiteOutcomes(near) ==
    IF Cardinality(near) # 1
    THEN {<<"return False", "NoUniqueStream">>}
    ELSE OutcomesFrom(TheOne(near), StrahlerOr[TheOne(near)], MaxHops)

Outcome ==
    IF xy = PyFalse THEN <<"return False", err>> ELSE <<"return", xy>>

C18_NoStateLeak ==
    /\ Returned => Outcome \in SiteOutcomes(siteNear)
    /\ (pc = "crashed" /\ err = "KeyError") =>
           <<"raise", "KeyError">> \in SiteOutcomes(siteNear)
    /\ (pc = "swim" /\ Len(downstream_segments) = 1) =>
           /\ UniquelyResolved
           /\ downstream_segments = <<TheOne(siteNear)>>
           /\ downstream_length = 0
           /\ StrOr_initial = StrahlerOr[TheOne(siteNear)]

C18_Witness ==
    /\ Returned
    /\ s = 2
    /\ Len(output) = 1
    /\ output[1].err = "OrderInversion"
    /\ start_segment = siteNear
    /\ xy # PyFalse

\* C19: at the head of the loop and after it, downstream_segments is not
\* empty, begins with the segment of the site, holds segments of the initial
\* order only, each leaving the node its predecessor enters, and ends with
\* the segment held in start; downstream_length is the sum of the lengths of
\* all of them but the first.
VisitedPath(q) ==
    /\ q # <<>>
    /\ UniquelyResolved
    /\ Head(q) = TheOne(siteNear)
    /\ \A i \in DOMAIN q : StrahlerOr[q[i]] = StrOr_initial
    /\ \A i \in 1..(Len(q) - 1) : FROM_NODE[q[i + 1]] = TO_NODE[q[i]]
    /\ Last(q) = start["OBJECTID"]

C19_VisitedPath ==
    pc = "swim" =>
        /\ VisitedPath(downstream_segments)
        /\ downstream_length = SumLength(Tail(downstream_segments))

C19_Witness ==
    /\ AtLoopHead
    /\ Len(downstream_segments) = 2
    /\ downstream_length = Shape_Length[downstream_segments[2]]
    /\ start["OBJECTID"] # TheOne(siteNear)

====
